---- MODULE Spec2Model ----
(***************************************************************************)
(* TibaSasa healthcare app (src/reappointment_kate.py): a Streamlit script *)
(* that is re-executed top to bottom on every user interaction.  One       *)
(* script run is: load the model artifact, initialise and seed the session *)
(* store, then render the selected page (and run the handler of the button *)
(* whose press triggered the run).  st.session_state survives the runs of  *)
(* one session; the script's globals (model) do not.                       *)
(*                                                                         *)
(* Objects are modelled by identity: an Appointment object is its index in *)
(* heap; the Patient and Doctor objects are the values stored under their  *)
(* keys in patients_db and doctors_db, which never replace a value, so the *)
(* key stands for the reference.  Probabilities are in hundredths.         *)
(***************************************************************************)
EXTENDS Integers, Sequences, FiniteSets, TLC

VARIABLES
  artifact,       \* what joblib.load finds at model_filename
  model,          \* the script global `model` of the current run
  session_state,  \* st.session_state: key -> dict
  heap,           \* the Appointment objects created so far, by identity
  page,           \* value of the sidebar radio
  rendered,       \* the button the last run drew
  clicked,        \* the button whose press triggered the current run
  pc,             \* position of the current script run
  display,        \* what the page body of the current run showed
  table,          \* rows of the appointment table this run drew
  called,         \* arguments of the schedule_appointment call of this run
  ret,            \* value that call returned
  score,          \* the prediction this run made
  memo            \* one earlier prediction of the session, remembered

vars == <<artifact, model, session_state, heap, page, rendered, clicked, pc,
          display, table, called, ret, score, memo>>

\* ---- bounds ----
MaxAppointments == 2
IdSpan == 2
MaxTime == 1
MaxPrev == 1

\* ---- program constants ----
MinId == 1000
Threshold == 50
DefaultAge == 50
DefaultBloodSugar == 5

Times == 0..MaxTime
RandomNumbers == MinId..(MinId + IdSpan - 1)
Ages == {DefaultAge}
PrevAdmissions == 0..MaxPrev
BloodSugars == {DefaultBloodSugar}

Models == {"classifier"}
Artifacts == Models \cup {"missing", "corrupt"}
Undefined == "undefined"

PatientIds == {"PAT001", "PATXXX"}
DoctorIds == {"DOC501", "DOCXXX"}

RiskPage == "Readmission Risk Prediction"
SchedulePage == "Schedule Appointment"
ViewPage == "View Appointments"
Pages == {RiskPage, SchedulePage, ViewPage}

NotFound == "Error: Patient or Doctor not found."
HigherRisk == "This patient has a higher predicted risk of readmission."
LowerRisk == "This patient has a lower predicted risk of readmission."
Unavailable == "Readmission risk prediction is unavailable because the model could not be loaded."

NoCall == [made |-> FALSE, patient_id |-> "", doctor_id |-> "", appointment_time |-> 0]
NoReturn == [kind |-> "none", ref |-> 0, msg |-> ""]
NoForm == [age |-> 0, has_diabetes |-> FALSE, has_hypertension |-> FALSE,
           previous_admissions |-> 0, avg_blood_sugar_last_7_days |-> 0]
NoScore == [made |-> FALSE, model |-> Undefined, form |-> NoForm, risk_score |-> 0,
            label |-> "", appointments |-> 0]

\* ---- classes ----
Patient(patient_id, name, phone_number, medical_history) ==
  [patient_id |-> patient_id, name |-> name, phone_number |-> phone_number,
   medical_history |-> medical_history, vitals |-> <<>>, appointments |-> <<>>]

Doctor(doctor_id, name, specialization) ==
  [doctor_id |-> doctor_id, name |-> name, specialization |-> specialization,
   appointments |-> <<>>]

\* mutant: the constructor keeps the date only and drops the time of day
Appointment_DropsTime(appointment_id, patient, doctor, appointment_time) ==
  [appointment_id |-> appointment_id, patient |-> patient, doctor |-> doctor,
   appointment_time |-> 0, status |-> "Scheduled", video_call_link |-> "None"]

\* mutant: the constructor starts an appointment as "Completed"
Appointment_WrongStatus(appointment_id, patient, doctor, appointment_time) ==
  [appointment_id |-> appointment_id, patient |-> patient, doctor |-> doctor,
   appointment_time |-> appointment_time, status |-> "Completed",
   video_call_link |-> "None"]

Appointment(appointment_id, patient, doctor, appointment_time) ==
  [appointment_id |-> appointment_id, patient |-> patient, doctor |-> doctor,
   appointment_time |-> appointment_time, status |-> "Scheduled",
   video_call_link |-> "None"]

\* ---- dict helpers ----
EmptyDict == [k \in {} |-> 0]
Put(d, k, v) == [x \in (DOMAIN d) \cup {k} |-> IF x = k THEN v ELSE d[x]]
patients_db == session_state["patients_db"]
doctors_db == session_state["doctors_db"]
appointments_db == session_state["appointments_db"]

Count(x, s) == Cardinality({i \in DOMAIN s : s[i] = x})

Init ==
  /\ artifact \in Artifacts
  /\ model = Undefined
  /\ session_state = EmptyDict
  /\ heap = <<>>
  /\ page = RiskPage
  /\ rendered = "none"
  /\ clicked = "none"
  /\ pc = "start"
  /\ display = ""
  /\ table = {}
  /\ called = NoCall
  /\ ret = NoReturn
  /\ score = NoScore
  /\ memo = NoScore

\* joblib.load under try / except FileNotFoundError
LoadModel ==
  /\ pc = "start"
  /\ model' = IF artifact \in Models THEN artifact ELSE Undefined
  /\ pc' = IF artifact = "corrupt" THEN "crashed" ELSE "session"
  /\ rendered' = IF artifact = "corrupt" THEN "none" ELSE rendered
  /\ UNCHANGED <<artifact, session_state, heap, page, clicked, display,
                 table, called, ret, score, memo>>

\* if '<key>' not in st.session_state: st.session_state.<key> = {}
InitSessionState(ss) ==
  LET s1 == IF "patients_db" \notin DOMAIN ss
            THEN Put(ss, "patients_db", EmptyDict) ELSE ss
      s2 == IF "doctors_db" \notin DOMAIN s1
            THEN Put(s1, "doctors_db", EmptyDict) ELSE s1
  IN  IF "appointments_db" \notin DOMAIN s2
      THEN Put(s2, "appointments_db", EmptyDict) ELSE s2

\* add the sample patient and doctor if not already present
SeedSampleData(ss) ==
  LET s1 == IF "PAT001" \notin DOMAIN ss["patients_db"]
            THEN [ss EXCEPT !["patients_db"] =
                   Put(@, "PAT001", Patient("PAT001", "Asha Wanjiru",
                                            "+254712345678", "Type 2 Diabetes"))]
            ELSE ss
  IN  IF "DOC501" \notin DOMAIN s1["doctors_db"]
      THEN [s1 EXCEPT !["doctors_db"] =
             Put(@, "DOC501", Doctor("DOC501", "John Omondi", "Endocrinology"))]
      ELSE s1

InitSession ==
  /\ pc = "session"
  /\ session_state' = SeedSampleData(InitSessionState(session_state))
  /\ pc' = "page"
  /\ UNCHANGED <<artifact, model, heap, page, rendered, clicked, display,
                 table, called, ret, score, memo>>

\* f"APP{random.randint(1000, 9999)}", rnd being the number drawn
AppointmentId(rnd) == <<"APP", rnd>>

\* mutant: the appointment is not appended to the doctor's list
schedule_appointment_NoDoctorLink(ss, hp, patient_id, doctor_id, appointment_time, rnd) ==
  IF patient_id \notin DOMAIN ss["patients_db"]
     \/ doctor_id \notin DOMAIN ss["doctors_db"]
  THEN [session_state |-> ss, heap |-> hp,
        ret |-> [kind |-> "str", ref |-> 0, msg |-> NotFound]]
  ELSE
    LET appointment_id == AppointmentId(rnd)
        new_appointment == Len(hp) + 1
        obj == Appointment(appointment_id, patient_id, doctor_id, appointment_time)
        s1 == [ss EXCEPT !["appointments_db"] = Put(@, appointment_id, new_appointment)]
        s2 == [s1 EXCEPT !["patients_db"][patient_id].appointments =
                 Append(@, new_appointment)]
    IN [session_state |-> s2, heap |-> Append(hp, obj),
        ret |-> [kind |-> "Appointment", ref |-> new_appointment, msg |-> ""]]

\* mutant: an unknown patient identifier is entered into patients_db
\* (setdefault instead of a membership test) before the error is returned
schedule_appointment_Vivifies(ss, hp, patient_id, doctor_id, appointment_time, rnd) ==
  IF patient_id \notin DOMAIN ss["patients_db"]
     \/ doctor_id \notin DOMAIN ss["doctors_db"]
  THEN [session_state |->
          IF patient_id \notin DOMAIN ss["patients_db"]
          THEN [ss EXCEPT !["patients_db"] = Put(@, patient_id, Patient(patient_id, "", "", ""))]
          ELSE ss,
        heap |-> hp,
        ret |-> [kind |-> "str", ref |-> 0, msg |-> NotFound]]
  ELSE
    LET appointment_id == AppointmentId(rnd)
        new_appointment == Len(hp) + 1
        obj == Appointment(appointment_id, patient_id, doctor_id, appointment_time)
        s1 == [ss EXCEPT !["appointments_db"] = Put(@, appointment_id, new_appointment)]
        s2 == [s1 EXCEPT !["patients_db"][patient_id].appointments =
                 Append(@, new_appointment)]
        s3 == [s2 EXCEPT !["doctors_db"][doctor_id].appointments =
                 Append(@, new_appointment)]
    IN [session_state |-> s3, heap |-> Append(hp, obj),
        ret |-> [kind |-> "Appointment", ref |-> new_appointment, msg |-> ""]]

\* schedule_appointment on store (ss, hp); the result carries the store
\* after the call and the returned value
schedule_appointment(ss, hp, patient_id, doctor_id, appointment_time, rnd) ==
  IF patient_id \notin DOMAIN ss["patients_db"]
     \/ doctor_id \notin DOMAIN ss["doctors_db"]
  THEN [session_state |-> ss, heap |-> hp,
        ret |-> [kind |-> "str", ref |-> 0, msg |-> NotFound]]
  ELSE
    LET appointment_id == AppointmentId(rnd)
        new_appointment == Len(hp) + 1
        obj == Appointment(appointment_id, patient_id, doctor_id, appointment_time)
        s1 == [ss EXCEPT !["appointments_db"] = Put(@, appointment_id, new_appointment)]
        s2 == [s1 EXCEPT !["patients_db"][patient_id].appointments =
                 Append(@, new_appointment)]
        s3 == [s2 EXCEPT !["doctors_db"][doctor_id].appointments =
                 Append(@, new_appointment)]
    IN [session_state |-> s3, heap |-> Append(hp, obj),
        ret |-> [kind |-> "Appointment", ref |-> new_appointment, msg |-> ""]]

\* ---- Readmission Risk Prediction page ----
Int01(b) == IF b THEN 1 ELSE 0

\* mutant: previous_admissions is taken from the session (the number of
\* appointments on record) instead of the widget
PatientData_FromSession(form) ==
  [age |-> form.age,
   has_diabetes |-> Int01(form.has_diabetes),
   has_hypertension |-> Int01(form.has_hypertension),
   previous_admissions |-> Len(heap),
   avg_blood_sugar_last_7_days |-> form.avg_blood_sugar_last_7_days]

\* the dict built from the widgets
PatientData(form) ==
  [age |-> form.age,
   has_diabetes |-> Int01(form.has_diabetes),
   has_hypertension |-> Int01(form.has_hypertension),
   previous_admissions |-> form.previous_admissions,
   avg_blood_sugar_last_7_days |-> form.avg_blood_sugar_last_7_days]

features == <<"age", "has_diabetes", "has_hypertension", "previous_admissions",
              "avg_blood_sugar_last_7_days">>

\* input_df[features]: the one row, columns in the order of features
InputRow(patient_data) == [i \in DOMAIN features |-> patient_data[features[i]]]

Clamp(x) == IF x < 0 THEN 0 ELSE IF x > 2 * Threshold THEN 2 * Threshold ELSE x

\* model.predict_proba(input_df)[:, 1][0].  The classifier is an external
\* artifact; one fixed positional function of the row stands for it.
PredictProba(m, row) ==
  Clamp(row[1] + 25 * row[2] + 10 * row[3] + 5 * row[4] + (row[5] - 5))

\* mutant: the threshold itself counts as higher risk
Interpretation_AtLeast(risk_score) ==
  IF risk_score >= Threshold THEN HigherRisk ELSE LowerRisk

Interpretation(risk_score) ==
  IF risk_score > Threshold THEN HigherRisk ELSE LowerRisk

Forms ==
  [age : Ages, has_diabetes : BOOLEAN, has_hypertension : BOOLEAN,
   previous_admissions : PrevAdmissions,
   avg_blood_sugar_last_7_days : BloodSugars]

\* mutant: the handler logs each prediction in the sample patient's vitals
RiskPredictionPage_LogsVitals ==
  /\ pc = "page"
  /\ page = RiskPage
  /\ IF model # Undefined
     THEN /\ rendered' = "predict"
          /\ IF clicked = "predict"
             THEN \E form \in Forms :
                    LET risk_score == PredictProba(model, InputRow(PatientData(form)))
                    IN /\ score' = [made |-> TRUE, model |-> model, form |-> form,
                                    risk_score |-> risk_score,
                                    label |-> Interpretation(risk_score),
                                    appointments |-> Len(heap)]
                       /\ memo' \in IF memo.made THEN {memo} ELSE {memo, score'}
                       /\ display' = "result"
                       /\ session_state' =
                            [session_state EXCEPT !["patients_db"]["PAT001"].vitals =
                               <<risk_score>>]
             ELSE /\ display' = "form"
                  /\ UNCHANGED <<score, memo, session_state>>
     ELSE /\ rendered' = "none"
          /\ display' = Unavailable
          /\ UNCHANGED <<score, memo, session_state>>
  /\ pc' = "done"
  /\ UNCHANGED <<artifact, model, heap, page, clicked, table, called, ret>>

RiskPredictionPage ==
  /\ pc = "page"
  /\ page = RiskPage
  /\ IF model # Undefined
     THEN /\ rendered' = "predict"
          /\ IF clicked = "predict"
             THEN \E form \in Forms :
                    LET risk_score == PredictProba(model, InputRow(PatientData(form)))
                    IN /\ score' = [made |-> TRUE, model |-> model, form |-> form,
                                    risk_score |-> risk_score,
                                    label |-> Interpretation(risk_score),
                                    appointments |-> Len(heap)]
                       /\ memo' \in IF memo.made THEN {memo} ELSE {memo, score'}
                       /\ display' = "result"
             ELSE /\ display' = "form"
                  /\ UNCHANGED <<score, memo>>
     ELSE /\ rendered' = "none"
          /\ display' = Unavailable
          /\ UNCHANGED <<score, memo>>
  /\ pc' = "done"
  /\ UNCHANGED <<artifact, model, session_state, heap, page, clicked, table,
                 called, ret>>

\* ---- Schedule Appointment page ----
ScheduleAppointmentPage ==
  /\ pc = "page"
  /\ page = SchedulePage
  /\ rendered' = "schedule"
  /\ IF clicked = "schedule"
     THEN \E patient_id_select \in DOMAIN patients_db,
             doctor_id_select \in DOMAIN doctors_db,
             appointment_datetime \in Times,
             rnd \in RandomNumbers :
            LET r == schedule_appointment(session_state, heap, patient_id_select,
                                          doctor_id_select, appointment_datetime, rnd)
            IN /\ session_state' = r.session_state
               /\ heap' = r.heap
               /\ ret' = r.ret
               /\ called' = [made |-> TRUE, patient_id |-> patient_id_select,
                             doctor_id |-> doctor_id_select,
                             appointment_time |-> appointment_datetime]
               /\ display' = IF r.ret.kind = "Appointment" THEN "success" ELSE "error"
     ELSE /\ display' = "form"
          /\ UNCHANGED <<session_state, heap, ret, called>>
  /\ pc' = "done"
  /\ UNCHANGED <<artifact, model, page, clicked, table, score, memo>>

\* schedule_appointment called by a caller other than the button handler,
\* with any identifiers
DirectCall ==
  /\ pc = "page"
  /\ Len(heap) < MaxAppointments
  /\ \E patient_id \in PatientIds, doctor_id \in DoctorIds,
        appointment_time \in Times, rnd \in RandomNumbers :
       LET r == schedule_appointment(session_state, heap, patient_id, doctor_id,
                                     appointment_time, rnd)
       IN /\ session_state' = r.session_state
          /\ heap' = r.heap
          /\ ret' = r.ret
          /\ called' = [made |-> TRUE, patient_id |-> patient_id,
                        doctor_id |-> doctor_id,
                        appointment_time |-> appointment_time]
  /\ rendered' = "none"
  /\ pc' = "done"
  /\ UNCHANGED <<artifact, model, page, clicked, display, table, score, memo>>

\* ---- View Appointments page ----
AppointmentRows ==
  {[AppointmentID |-> heap[appointments_db[k]].appointment_id,
    Patient |-> patients_db[heap[appointments_db[k]].patient].name,
    Doctor |-> doctors_db[heap[appointments_db[k]].doctor].name,
    Time |-> heap[appointments_db[k]].appointment_time,
    Status |-> heap[appointments_db[k]].status] : k \in DOMAIN appointments_db}

ViewAppointmentsPage ==
  /\ pc = "page"
  /\ page = ViewPage
  /\ rendered' = "none"
  /\ IF DOMAIN appointments_db # {}
     THEN /\ display' = "table"
          /\ table' = AppointmentRows
     ELSE /\ display' = "No appointments scheduled yet."
          /\ table' = {}
  /\ pc' = "done"
  /\ UNCHANGED <<artifact, model, session_state, heap, page, clicked, called,
                 ret, score, memo>>

\* ---- the user: every interaction re-runs the script ----
NewRun ==
  /\ pc' = "start"
  /\ model' = Undefined
  /\ display' = ""
  /\ table' = {}
  /\ called' = NoCall
  /\ ret' = NoReturn
  /\ score' = NoScore
  /\ UNCHANGED <<artifact, session_state, heap, memo>>

\* the sidebar radio is changed, or the page is reloaded
Rerun ==
  /\ pc \in {"done", "crashed"}
  /\ \E p \in Pages :
       /\ pc = "crashed" => p = page
       /\ page' = p
  /\ clicked' = "none"
  /\ rendered' = "none"
  /\ NewRun

ClickPredictRisk ==
  /\ pc = "done"
  /\ rendered = "predict"
  /\ clicked' = "predict"
  /\ rendered' = "none"
  /\ page' = page
  /\ NewRun

ClickScheduleAppointment ==
  /\ pc = "done"
  /\ rendered = "schedule"
  /\ Len(heap) < MaxAppointments
  /\ clicked' = "schedule"
  /\ rendered' = "none"
  /\ page' = page
  /\ NewRun

Next ==
  \/ LoadModel
  \/ InitSession
  \/ RiskPredictionPage
  \/ ScheduleAppointmentPage
  \/ DirectCall
  \/ ViewAppointmentsPage
  \/ Rerun
  \/ ClickPredictRisk
  \/ ClickScheduleAppointment

Spec == Init /\ [][Next]_vars

\* ---- the interpretation applied to every probability ----
InitLabel ==
  /\ artifact = "classifier"
  /\ model = "classifier"
  /\ session_state = EmptyDict
  /\ heap = <<>>
  /\ page = RiskPage
  /\ rendered = "none"
  /\ clicked = "predict"
  /\ pc = "label"
  /\ display = ""
  /\ table = {}
  /\ called = NoCall
  /\ ret = NoReturn
  /\ \E risk_score \in 0..(2 * Threshold) :
       score = [NoScore EXCEPT !.risk_score = risk_score]
  /\ memo = NoScore

ApplyInterpretation ==
  /\ pc = "label"
  /\ score' = [score EXCEPT !.made = TRUE, !.model = model,
                            !.label = Interpretation(score.risk_score)]
  /\ pc' = "labelled"
  /\ display' = "result"
  /\ UNCHANGED <<artifact, model, session_state, heap, page, rendered, clicked,
                 table, called, ret, memo>>

NextLabel == ApplyInterpretation

LabelSpec == InitLabel /\ [][NextLabel]_vars

\* ---- properties ----
SessionInitialised ==
  {"patients_db", "doctors_db", "appointments_db"} \subseteq DOMAIN session_state

ValidCall ==
  /\ called.made
  /\ called.patient_id \in DOMAIN patients_db
  /\ called.doctor_id \in DOMAIN doctors_db

\* C1: after schedule_appointment is called with a patient_id in patients_db
\* and a doctor_id in doctors_db, the returned value is an Appointment, the
\* registry maps its appointment_id to it, and it occurs exactly once in the
\* patient's and exactly once in the doctor's appointment list.
C1_ScheduleLinksThreeWay ==
  ValidCall =>
    /\ ret.kind = "Appointment"
    /\ ret.ref \in DOMAIN heap
    /\ heap[ret.ref].appointment_id \in DOMAIN appointments_db
    /\ appointments_db[heap[ret.ref].appointment_id] = ret.ref
    /\ Count(ret.ref, patients_db[called.patient_id].appointments) = 1
    /\ Count(ret.ref, doctors_db[called.doctor_id].appointments) = 1

C1_Witness ==
  /\ ValidCall
  /\ ret.kind = "Appointment"
  /\ ret.ref = 2
  /\ heap[1].appointment_id = heap[2].appointment_id

\* C2: a schedule_appointment call with a patient_id absent from patients_db
\* or a doctor_id absent from doctors_db returns the NotFound message as a
\* value and leaves the whole store (registry, patients, doctors, their
\* appointment lists, the appointment objects) as it was before the call.
C2_NotFoundNoMutation ==
  [][(/\ ~called.made
      /\ called'.made
      /\ \/ called'.patient_id \notin DOMAIN patients_db
         \/ called'.doctor_id \notin DOMAIN doctors_db)
     => /\ ret'.kind = "str"
        /\ ret'.msg = NotFound
        /\ session_state' = session_state
        /\ heap' = heap]_vars

C2_Witness ==
  /\ called.made
  /\ called.patient_id = "PATXXX"
  /\ called.doctor_id = "DOC501"
  /\ ret.kind = "str"
  /\ ret.msg = NotFound

\* C3: in every reachable state every Appointment created so far is in the
\* registry under its own appointment_id, in exactly one patient's list and
\* in exactly one doctor's list, once each.
C3_ThreeWayConsistency ==
  \A h \in DOMAIN heap :
    /\ heap[h].appointment_id \in DOMAIN appointments_db
    /\ appointments_db[heap[h].appointment_id] = h
    /\ Cardinality({p \in DOMAIN patients_db :
                      Count(h, patients_db[p].appointments) = 1}) = 1
    /\ \A p \in DOMAIN patients_db : Count(h, patients_db[p].appointments) <= 1
    /\ Cardinality({d \in DOMAIN doctors_db :
                      Count(h, doctors_db[d].appointments) = 1}) = 1
    /\ \A d \in DOMAIN doctors_db : Count(h, doctors_db[d].appointments) <= 1

\* C4: when loading the model artifact fails, for any kind of failure, the
\* run does not crash, the prediction page reports scoring as unavailable
\* and makes no prediction, and the run reaches the selected page.
C4_GracefulDegradation ==
  artifact \notin Models =>
    /\ pc # "crashed"
    /\ score.made = FALSE
    /\ (pc = "done" /\ page = RiskPage /\ ~called.made) => display = Unavailable

\* C5: the Appointment a successful schedule_appointment(patient_id,
\* doctor_id, T) returns references the Patient stored under patient_id and
\* the Doctor stored under doctor_id, has appointment_time T (past times
\* included) and status "Scheduled"; for "PAT001" and "DOC501" the names are
\* "Asha Wanjiru" and "John Omondi".
C5_ReturnedAppointment ==
  (called.made /\ ret.kind = "Appointment") =>
    LET a == heap[ret.ref] IN
    /\ a.patient = called.patient_id
    /\ patients_db[a.patient].patient_id = called.patient_id
    /\ a.doctor = called.doctor_id
    /\ doctors_db[a.doctor].doctor_id = called.doctor_id
    /\ a.appointment_time = called.appointment_time
    /\ a.status = "Scheduled"
    /\ called.patient_id = "PAT001" => patients_db[a.patient].name = "Asha Wanjiru"
    /\ called.doctor_id = "DOC501" => doctors_db[a.doctor].name = "John Omondi"

C5_Witness ==
  /\ called.made
  /\ ret.kind = "Appointment"
  /\ called.patient_id = "PAT001"
  /\ called.doctor_id = "DOC501"
  /\ called.appointment_time = MaxTime
  /\ display = "success"

\* C6: the label shown for a probability is "higher risk" exactly when the
\* probability is strictly greater than 0.5, and "lower risk" at 0.5 and
\* below.
C6_LabelThreshold ==
  score.made =>
    /\ score.risk_score \in 0..(2 * Threshold)
    /\ score.label \in {HigherRisk, LowerRisk}
    /\ score.label = HigherRisk <=> score.risk_score > Threshold
    /\ score.risk_score <= Threshold => score.label = LowerRisk

C6_Witness ==
  /\ score.made
  /\ score.risk_score = Threshold
  /\ score.label = LowerRisk

\* C7: every Appointment has status "Scheduled" and no call link, and no
\* step changes any field of an Appointment that exists.
C7_WriteOnce ==
  [][/\ \A h \in DOMAIN heap' :
          /\ heap'[h].status = "Scheduled"
          /\ heap'[h].video_call_link = "None"
     /\ \A h \in DOMAIN heap : h \in DOMAIN heap' /\ heap'[h] = heap[h]
     /\ SessionInitialised' =>
          /\ \A k \in DOMAIN appointments_db' : appointments_db'[k] \in DOMAIN heap'
          /\ \A p \in DOMAIN patients_db' :
               \A i \in DOMAIN patients_db'[p].appointments :
                 patients_db'[p].appointments[i] \in DOMAIN heap'
          /\ \A d \in DOMAIN doctors_db' :
               \A i \in DOMAIN doctors_db'[d].appointments :
                 doctors_db'[d].appointments[i] \in DOMAIN heap']_vars

C7_Witness ==
  /\ Len(heap) >= 2
  /\ display = "table"
  /\ \E r \in table : r.Status = "Scheduled"

ScoringStep ==
  /\ pc = "page"
  /\ page = RiskPage
  /\ pc' = "done"
  /\ display' \in {"result", "form", Unavailable}

\* C9: a step of the prediction page, whether it predicts, draws the form or
\* reports scoring unavailable, leaves the session store, the appointment
\* objects, the loaded model and the artifact unchanged.
C9_ScoringNoSideEffects ==
  [][ScoringStep => UNCHANGED <<session_state, heap, model, artifact>>]_vars

C9_Witness ==
  /\ pc = "done"
  /\ score.made
  /\ Len(heap) >= 1
  /\ DOMAIN appointments_db # {}

IsPrefix(s, t) == Len(s) <= Len(t) /\ \A i \in DOMAIN s : t[i] = s[i]

\* C10: once the first run is over patients_db contains "PAT001" and
\* doctors_db contains "DOC501"; a re-run removes or replaces no patient,
\* doctor or registry entry; appointment lists only grow by appending.
C10_InitialisedOnce ==
  [][/\ pc' \in {"done", "crashed"} =>
          /\ SessionInitialised'
          /\ "PAT001" \in DOMAIN patients_db'
          /\ "DOC501" \in DOMAIN doctors_db'
     /\ SessionInitialised =>
          /\ SessionInitialised'
          /\ \A p \in DOMAIN patients_db :
               /\ p \in DOMAIN patients_db'
               /\ IsPrefix(patients_db[p].appointments, patients_db'[p].appointments)
          /\ \A d \in DOMAIN doctors_db :
               /\ d \in DOMAIN doctors_db'
               /\ IsPrefix(doctors_db[d].appointments, doctors_db'[d].appointments)
          /\ pc \in {"done", "crashed", "start", "session"} =>
               session_state' = session_state]_vars

====
